---- MODULE Spec2Model ----
(***************************************************************************)
(* A model of bom_digikey_plugin/digikey.py: the construction of the       *)
(* Digi-Key collection from the table of scraped anchors                   *)
(* (Digikey.collection_extract), its verification                          *)
(* (Digikey.collection_verify) and its reorganization                      *)
(* (Digikey.collection_reorganize, DigikeyDirectory.reorganize).           *)
(*                                                                         *)
(* Python strings are sequences of one-character strings, so that find,    *)
(* strip, startswith, slicing and the lexicographic order of sorted() are  *)
(* computed as Python computes them.                                       *)
(***************************************************************************)
EXTENDS Integers, Sequences, FiniteSets, TLC

VARIABLES
    soup,          \* the <a> tags of the page, as soup.find_all("a") lists them
    disk,          \* the files: the .csv files of csvs_directory, the entries below root_directory
    hrefs_table,   \* Dict[str, List[Match]]: a function from keys to match lists
    collection,    \* the children of the bom.Collection: a sequence of directories
    pc,            \* the stage Digikey.process has reached
    call           \* history: the last operation applied, and the tree before it

vars == <<soup, disk, hrefs_table, collection, pc, call>>

-----------------------------------------------------------------------------
(* Python strings *)

\* The characters the model uses, in code point order.
Ascii ==
    <<"\t", "\n", " ", "(", ")", "+", "-", ".", "/",
      "0", "1", "2", "3", "4", "5", "6", "7", "8", "9", ":", "?",
      "A", "B", "C", "D", "E", "F", "G", "H", "I", "J", "K", "L", "M",
      "N", "O", "P", "Q", "R", "S", "T", "U", "V", "W", "X", "Y", "Z",
      "a", "b", "c", "d", "e", "f", "g", "h", "i", "j", "k", "l", "m",
      "n", "o", "p", "q", "r", "s", "t", "u", "v", "w", "x", "y", "z">>

CodeTable ==
    [c \in {Ascii[i] : i \in 1..Len(Ascii)} |-> CHOOSE i \in 1..Len(Ascii) : Ascii[i] = c]

Code(c) == CodeTable[c]

Digits == <<"0", "1", "2", "3", "4", "5", "6", "7", "8", "9">>

DigitValue(c) == (CHOOSE i \in 1..Len(Digits) : Digits[i] = c) - 1

IsDigit(c) == \E i \in 1..Len(Digits) : Digits[i] = c

\* Python's None, where a variable is Optional[str]: no string equals it.
None == <<"None">>

SetMin(S) == CHOOSE x \in S : \A y \in S : x <= y

SetMax(S) == CHOOSE x \in S : \A y \in S : x >= y

\* cmp(a, b) of two str values: -1, 0 or 1.
RECURSIVE StrCmp(_, _)
StrCmp(a, b) ==
    IF a = b THEN 0
    ELSE IF a = <<>> THEN -1
    ELSE IF b = <<>> THEN 1
    ELSE IF Head(a) = Head(b) THEN StrCmp(Tail(a), Tail(b))
    ELSE IF Code(Head(a)) < Code(Head(b)) THEN -1 ELSE 1

StrLess(a, b) == StrCmp(a, b) < 0

\* A slice bound as Python normalises it for a sequence of length len.
SliceBound(n, len) ==
    IF n < 0 THEN (IF n + len < 0 THEN 0 ELSE n + len)
    ELSE IF n > len THEN len ELSE n

\* s[i:j]
PySlice(s, i, j) ==
    LET a == SliceBound(i, Len(s))
        b == SliceBound(j, Len(s))
    IN  IF a >= b THEN <<>> ELSE SubSeq(s, a + 1, b)

\* str.find(sub): the lowest 0-based index of sub in s, or -1.
PyFindNotFoundZero(s, sub) ==
    LET hits == {i \in 0..(Len(s) - Len(sub)) : SubSeq(s, i + 1, i + Len(sub)) = sub}
    IN  IF hits = {} THEN 0 ELSE SetMin(hits)

PyFind(s, sub) ==
    LET hits == {i \in 0..(Len(s) - Len(sub)) : SubSeq(s, i + 1, i + Len(sub)) = sub}
    IN  IF hits = {} THEN -1 ELSE SetMin(hits)

\* str.rfind(sub): the highest 0-based index of sub in s, or -1.
PyRFind(s, sub) ==
    LET hits == {i \in 0..(Len(s) - Len(sub)) : SubSeq(s, i + 1, i + Len(sub)) = sub}
    IN  IF hits = {} THEN -1 ELSE SetMax(hits)

\* A replace() that replaces nothing.
ReplacesNothing(s, old, new) == s

\* str.replace(old, new) for one-character old and new.
PyReplace(s, old, new) == [i \in 1..Len(s) |-> IF s[i] = old THEN new ELSE s[i]]

StartsWith(s, prefix) ==
    Len(s) >= Len(prefix) /\ SubSeq(s, 1, Len(prefix)) = prefix

EndsWith(s, suffix) ==
    Len(s) >= Len(suffix) /\ SubSeq(s, Len(s) - Len(suffix) + 1, Len(s)) = suffix

\* str.strip(chars); chars is a set of characters.
RECURSIVE LStrip(_, _)
LStrip(s, chars) ==
    IF s # <<>> /\ Head(s) \in chars THEN LStrip(Tail(s), chars) ELSE s

RECURSIVE RStrip(_, _)
RStrip(s, chars) ==
    IF s # <<>> /\ s[Len(s)] \in chars THEN RStrip(SubSeq(s, 1, Len(s) - 1), chars) ELSE s

Strip(s, chars) == RStrip(LStrip(s, chars), chars)

Whitespace == {" ", "\t", "\n"}

\* int(s): surrounding whitespace and one sign are accepted; anything else
\* than decimal digits raises ValueError (ok = FALSE).
RECURSIVE DigitsValue(_, _)
DigitsValue(s, acc) ==
    IF s = <<>> THEN acc ELSE DigitsValue(Tail(s), 10 * acc + DigitValue(Head(s)))

PyInt(s) ==
    LET t == Strip(s, Whitespace)
        signed == t # <<>> /\ Head(t) \in {"+", "-"}
        d == IF signed THEN Tail(t) ELSE t
        ok == d # <<>> /\ \A i \in 1..Len(d) : IsDigit(d[i])
        v == IF ok THEN DigitsValue(d, 0) ELSE 0
    IN  [ok |-> ok, value |-> IF signed /\ Head(t) = "-" THEN 0 - v ELSE v]

\* sorted(s), given less[i][j] = (s[i] < s[j]) for the order used: Python's
\* sort is stable, so an element goes after the elements that are smaller
\* and after the earlier elements that are neither smaller nor greater.
StableSort(s, less) ==
    LET n == Len(s)
        rank(i) == 1 + Cardinality({j \in 1..n :
                        less[j][i] \/ (~less[i][j] /\ j < i)})
    IN  [k \in 1..n |-> s[CHOOSE i \in 1..n : rank(i) = k]]

\* reversed(s)
RECURSIVE Reversed(_)
Reversed(s) == IF s = <<>> THEN <<>> ELSE Reversed(Tail(s)) \o <<Head(s)>>

\* sorted(S) of a set of strings.
RECURSIVE SortedKeys(_)
SortedKeys(S) ==
    IF S = {} THEN <<>>
    ELSE LET least == CHOOSE x \in S : \A y \in S : x = y \/ StrLess(x, y)
         IN  <<least>> \o SortedKeys(S \ {least})

-----------------------------------------------------------------------------
(* Matches and the nodes of the collection *)

\* Match = Tuple[str, str, int, str, str, str]
UrlForHref(href, base, id, a_content, li_content, url) ==
    [href |-> url, base |-> base, id |-> id,
     a_content |-> a_content, li_content |-> li_content, url |-> url]

Match(href, base, id, a_content, li_content, url) ==
    [href |-> href, base |-> base, id |-> id,
     a_content |-> a_content, li_content |-> li_content, url |-> url]

\* The order of the tuples: field by field, left to right.
MatchLess(m1, m2) ==
    LET c1 == StrCmp(m1.href, m2.href)
        c2 == StrCmp(m1.base, m2.base)
        c4 == StrCmp(m1.a_content, m2.a_content)
        c5 == StrCmp(m1.li_content, m2.li_content)
    IN  IF c1 # 0 THEN c1 < 0
        ELSE IF c2 # 0 THEN c2 < 0
        ELSE IF m1.id # m2.id THEN m1.id < m2.id
        ELSE IF c4 # 0 THEN c4 < 0
        ELSE IF c5 # 0 THEN c5 < 0
        ELSE StrLess(m1.url, m2.url)

\* sorted(matches)
SortedMatches(matches) ==
    StableSort(matches, [i \in 1..Len(matches) |->
                            [j \in 1..Len(matches) |-> MatchLess(matches[i], matches[j])]])

\* DigikeyDirectory(name, parent, id, url), before it is appended to parent.
DigikeyDirectory(name, id, url) ==
    [kind |-> "directory", name |-> name, id |-> id, url |-> url, children |-> <<>>]

\* DigikeyTable(name, parent, base, id, href, url), before it is appended to parent.
DigikeyTable(name, base, id, href, url) ==
    [kind |-> "table", name |-> name, base |-> base, id |-> id, href |-> href,
     url |-> url]

IsTable(node) == node.kind = "table"

IsDirectory(node) == node.kind = "directory"

\* The nodes as they come, unsorted.
InsertionOrder(nodes) == nodes

\* sorted(nodes, key=lambda node: node.name)
SortedByName(nodes) ==
    StableSort(nodes, [i \in 1..Len(nodes) |->
                          [j \in 1..Len(nodes) |-> StrLess(nodes[i].name, nodes[j].name)]])

\* The initializers of bom.Directory and bom.Table append the new node to
\* the children of its parent.
AppendChild(directory, node) ==
    [directory EXCEPT !.children = Append(@, node)]

-----------------------------------------------------------------------------
(* Digikey.collection_extract *)

See == <<"S", "e", "e">>

ItemsPattern == <<" ", "i", "t", "e", "m", "s", ")">>

OpenParenthesis == <<"(">>

\* The local variables of the loop over one key's matches, before the loop.
ScanInit ==
    [name |-> None, items |-> -1, url |-> None, href |-> None, base |-> None,
     id |-> -1, done |-> FALSE, failed |-> FALSE]

\* One iteration of the loop `for match_index, match in ...` for one match.
ScanStep(st, match, hrefs_key) ==
    IF ~(match.href = <<>> \/ match.href = hrefs_key)
    THEN [st EXCEPT !.failed = TRUE]
    ELSE LET un == [st EXCEPT !.href = match.href, !.base = match.base,
                              !.id = match.id, !.url = match.url]
         IN  IF un.name # None /\ ~StartsWith(match.a_content, See)
             THEN LET named == [un EXCEPT !.name = Strip(match.a_content, Whitespace),
                                          !.done = TRUE]
                      open_parenthesis_index == PyFind(match.li_content, OpenParenthesis)
                      parsed == PyInt(PySlice(match.li_content, open_parenthesis_index + 1,
                                              0 - Len(ItemsPattern)))
                  IN  IF un.items < 0 /\ EndsWith(match.li_content, ItemsPattern)
                      THEN IF parsed.ok THEN [named EXCEPT !.items = parsed.value]
                           ELSE [named EXCEPT !.failed = TRUE]
                      ELSE named
             ELSE un

\* The loop over `enumerate(reversed(sorted(matches)))`: it ends at the break
\* or at a failed assertion.
RECURSIVE ScanLoop(_, _, _)
ScanLoop(st, ms, hrefs_key) ==
    IF ms = <<>> \/ st.done \/ st.failed THEN st
    ELSE ScanLoop(ScanStep(st, Head(ms), hrefs_key), Tail(ms), hrefs_key)

ScanMatches(matches, hrefs_key) ==
    ScanLoop(ScanInit, Reversed(SortedMatches(matches)), hrefs_key)

\* The state of the sweep over the sorted keys: the children of the
\* collection, the index of current_directory in them (0 is None), and
\* whether an assertion has failed.
BuildInit == [collection |-> <<>>, current_directory |-> 0, failed |-> FALSE, visited |-> <<>>]

\* `Dispatch based on *name* and *items*`.
Dispatch(b, st) ==
    IF st.failed THEN [b EXCEPT !.failed = TRUE]
    ELSE IF st.name = None THEN b
    ELSE IF st.items < 0
    THEN IF st.url = None THEN [b EXCEPT !.failed = TRUE]
         ELSE [b EXCEPT !.collection = Append(@, DigikeyDirectory(st.name, st.id, st.url)),
                        !.current_directory = Len(b.collection) + 1]
    ELSE IF b.current_directory = 0 \/ st.url = None THEN [b EXCEPT !.failed = TRUE]
         ELSE [b EXCEPT !.collection[b.current_directory] =
                   AppendChild(@, DigikeyTable(st.name, st.base, st.id, st.href, st.url))]

\* The loop `for href_index, hrefs_key in hrefs_table_keys`.
RECURSIVE BuildLoop(_, _, _)
BuildLoop(b, keys, table) ==
    IF keys = <<>> \/ b.failed THEN b
    ELSE BuildLoop([Dispatch(b, ScanMatches(table[Head(keys)], Head(keys)))
                        EXCEPT !.visited = Append(@, Head(keys))],
                   Tail(keys), table)

CollectionExtractResult(table) ==
    BuildLoop(BuildInit, SortedKeys(DOMAIN table), table)

-----------------------------------------------------------------------------
(* Digikey.collection_verify *)

UrlPrefix ==
    <<"h", "t", "t", "p", "s", ":", "/", "/", "w", "w", "w", ".", "d", "i", "g",
      "i", "k", "e", "y", ".", "c", "o", "m", "/", "p", "r", "o", "d", "u", "c",
      "t", "s", "/", "e", "n", "/">>

\* Flattens a sequence of sequences.
RECURSIVE Concat(_)
Concat(ss) == IF ss = <<>> THEN <<>> ELSE Head(ss) \o Concat(Tail(ss))

\* bom.Collection.directories_get(): every directory below the nodes.
RECURSIVE DirectoriesGet(_)
DirectoriesGet(nodes) ==
    Concat([i \in 1..Len(nodes) |->
        IF IsDirectory(nodes[i])
        THEN <<nodes[i]>> \o DirectoriesGet(nodes[i].children)
        ELSE <<>>])

\* bom.Collection.tables_get(): every table below the nodes.
RECURSIVE TablesGet(_)
TablesGet(nodes) ==
    Concat([i \in 1..Len(nodes) |->
        IF IsDirectory(nodes[i]) THEN TablesGet(nodes[i].children) ELSE <<nodes[i]>>])

\* The two loops that delete the keys of the nodes from hrefs_table_copy:
\* v.keys are the keys left in the copy, v.errors the count of errors.
RECURSIVE RemoveNodeKeys(_, _)
RemoveNodeKeys(v, nodes) ==
    IF nodes = <<>> THEN v
    ELSE LET url == Head(nodes).url
             node_key == PySlice(url, Len(UrlPrefix), Len(url))
         IN  RemoveNodeKeys(
                 IF node_key \in v.keys
                 THEN [v EXCEPT !.keys = @ \ {node_key}]
                 ELSE [v EXCEPT !.errors = @ + 1],
                 Tail(nodes))

\* The dict that the name hrefs_table_copy is bound to, and whose keys the
\* two loops delete: the one made by `hrefs_table.copy()`, or, without the
\* call of copy(), the dict of the caller.
BoundToCallersDict == "hrefs_table"

HrefsTableCopy == "hrefs_table.copy()"

\* The body of collection_verify: what is left of the copy, the errors
\* counted, whether the final assertion fails, and the dict of the caller
\* as the call leaves it.
CollectionVerifyResult(nodes, table) ==
    LET directories == DirectoriesGet(nodes)
        tables == TablesGet(nodes)
        start == [keys |-> DOMAIN table, errors |-> 0]
    IN  IF Cardinality(DOMAIN table) # Len(directories) + Len(tables)
        THEN LET v == RemoveNodeKeys(RemoveNodeKeys(start, tables), directories)
             IN  [checked |-> TRUE, keys |-> v.keys, errors |-> v.errors,
                  failed |-> v.errors # 0,
                  hrefs_table |-> IF HrefsTableCopy = "hrefs_table"
                                  THEN [k \in v.keys |-> table[k]]
                                  ELSE table]
        ELSE [checked |-> FALSE, keys |-> start.keys, errors |-> 0, failed |-> FALSE,
              hrefs_table |-> table]

-----------------------------------------------------------------------------
(* DigikeyDirectory.reorganize *)

Separator == <<" ", "-", " ">>

\* `group_name in groups_table`: groups_table is a dict, kept here as the
\* sequence of its entries in insertion order.
GroupIndex(groups, group_name) ==
    LET hits == {i \in 1..Len(groups) : groups[i].group_name = group_name}
    IN  IF hits = {} THEN 0 ELSE SetMin(hits)

\* An append that tacks the table on twice.
AppendsTwice(groups, group_name, table) ==
    LET i == GroupIndex(groups, group_name)
    IN  IF i = 0
        THEN Append(groups, [group_name |-> group_name, tables_list |-> <<table, table>>])
        ELSE [groups EXCEPT ![i].tables_list = @ \o <<table, table>>]

\* Tacks table onto the tables_list of group_name, creating the entry first
\* when groups_table has none.
GroupsAppend(groups, group_name, table) ==
    LET i == GroupIndex(groups, group_name)
    IN  IF i = 0
        THEN Append(groups, [group_name |-> group_name, tables_list |-> <<table>>])
        ELSE [groups EXCEPT ![i].tables_list = Append(@, table)]

\* The locals of reorganize that outlive the first loop.
GroupInit ==
    [groups |-> <<>>, name |-> None, id |-> -1, base |-> None, url |-> None,
     failed |-> FALSE]

\* One iteration of `for table_index, table in enumerate(children)`.
GroupStep(g, table) ==
    IF ~IsTable(table) THEN [g EXCEPT !.failed = TRUE]
    ELSE LET g1 == [g EXCEPT !.name = table.name, !.id = table.id,
                             !.base = table.base, !.url = table.url]
             hypen_index == PyFind(table.name, Separator)
             group_name == Strip(PySlice(table.name, 0, hypen_index), Whitespace)
         IN  IF hypen_index >= 0
             THEN [g1 EXCEPT !.groups = GroupsAppend(@, group_name, table)]
             ELSE g1

RECURSIVE GroupLoop(_, _)
GroupLoop(g, children) ==
    IF children = <<>> \/ g.failed THEN g
    ELSE GroupLoop(GroupStep(g, Head(children)), Tail(children))

\* `if digikey_table_name in groups_table` of the table/directory match loop.
NeverMatches(groups, digikey_table_name) == FALSE

TableDirectoryMatch(groups, digikey_table_name) ==
    GroupIndex(groups, digikey_table_name) # 0

\* One iteration of `for digikey_table in digikey_directory.children_get()`.
MatchStep(g, digikey_table) ==
    IF ~IsTable(digikey_table) THEN [g EXCEPT !.failed = TRUE]
    ELSE IF TableDirectoryMatch(g.groups, digikey_table.name)
    THEN [g EXCEPT !.groups = GroupsAppend(@, digikey_table.name, digikey_table)]
    ELSE g

RECURSIVE MatchLoop(_, _)
MatchLoop(g, children) ==
    IF children = <<>> \/ g.failed THEN g
    ELSE MatchLoop(MatchStep(g, Head(children)), Tail(children))

\* A group stays in groups_table unless `len(tables_list) <= 1`.
KeepsSingleGroups(tables_list) == ~(Len(tables_list) < 1)

DropsPairs(tables_list) == ~(Len(tables_list) <= 2)

KeepGroup(tables_list) == ~(Len(tables_list) <= 1)

\* groups_table after the group titles to delete are deleted.
RECURSIVE PruneGroups(_)
PruneGroups(groups) ==
    IF groups = <<>> THEN <<>>
    ELSE (IF KeepGroup(Head(groups).tables_list) THEN <<Head(groups)>> ELSE <<>>)
         \o PruneGroups(Tail(groups))

\* A remove() that leaves the table where it is.
KeepsChild(children, table) == children

\* bom.Node.remove(table): children without (the first occurrence of) table.
RECURSIVE RemoveChild(_, _)
RemoveChild(children, table) ==
    IF children = <<>> THEN <<>>
    ELSE IF Head(children) = table THEN Tail(children)
    ELSE <<Head(children)>> \o RemoveChild(Tail(children), table)

RECURSIVE RemoveChildren(_, _)
RemoveChildren(children, tables_list) ==
    IF tables_list = <<>> THEN children
    ELSE RemoveChildren(RemoveChild(children, Head(tables_list)), Tail(tables_list))

\* The sweep that deletes the tables of every remaining group.
RemoveGrouped(children, groups) ==
    RemoveChildren(children, Concat([i \in 1..Len(groups) |-> groups[i].tables_list]))

\* groups_table in the order of sorted(groups_table.keys()).
SortedGroups(groups) ==
    StableSort(groups, [i \in 1..Len(groups) |->
                           [j \in 1..Len(groups) |->
                               StrLess(groups[i].group_name, groups[j].group_name)]])

\* The sub_directory of one group: created with the id and url the first
\* loop left behind, then filled with a new table for each table of the
\* sorted tables_list, which takes its name from the table and base, id
\* and url from the same leftovers.
SubDirectory(group, g) ==
    LET tables_list == SortedByName(group.tables_list)
    IN  [DigikeyDirectory(group.group_name, g.id, g.url) EXCEPT !.children =
            [k \in 1..Len(tables_list) |->
                DigikeyTable(tables_list[k].name, g.base, g.id, <<>>, g.url)]]

\* reorganize() on one directory: the directory afterwards, and whether an
\* assertion failed on the way.
DirectoryReorganize(directory) ==
    LET children == SortedByName(directory.children)
        g1 == GroupLoop(GroupInit, children)
        g2 == IF g1.failed THEN g1 ELSE MatchLoop(g1, directory.children)
        groups == PruneGroups(g2.groups)
        kept == RemoveGrouped(directory.children, groups)
        ordered == SortedGroups(groups)
        sub_directories == [k \in 1..Len(ordered) |-> SubDirectory(ordered[k], g2)]
    IN  IF g2.failed THEN [directory |-> directory, failed |-> TRUE]
        ELSE [directory |-> [directory EXCEPT !.children = kept \o sub_directories],
              failed |-> FALSE]

-----------------------------------------------------------------------------
(* Digikey.collection_reorganize *)

\* The loop over the directories of the collection, sorted by name; each is
\* reorganized in place, and the first failed assertion ends the run.
\* visited lists the children reorganize() was called on, in call order.
RECURSIVE ReorganizeLoop(_, _)
ReorganizeLoop(r, order) ==
    IF order = <<>> \/ r.failed THEN r
    ELSE LET i == Head(order)
             one == DirectoryReorganize(r.collection[i])
             called == [r EXCEPT !.visited = Append(r.visited, i)]
         IN  ReorganizeLoop(
                 IF ~IsDirectory(r.collection[i]) THEN [r EXCEPT !.failed = TRUE]
                 ELSE IF one.failed THEN [called EXCEPT !.failed = TRUE]
                 ELSE [called EXCEPT !.collection[i] = one.directory],
                 Tail(order))

\* collection_reorganize as it would be if the pass went on into the
\* sub-directories it has created.
ReorganizeDeep(nodes) ==
    LET order == StableSort([i \in 1..Len(nodes) |-> i],
                            [i \in 1..Len(nodes) |->
                                [j \in 1..Len(nodes) |-> StrLess(nodes[i].name, nodes[j].name)]])
        r == ReorganizeLoop([collection |-> nodes, failed |-> FALSE, visited |-> <<>>], order)
        Deep(d) == [d EXCEPT !.children =
                       [k \in 1..Len(d.children) |->
                           IF IsDirectory(d.children[k])
                           THEN DirectoryReorganize(d.children[k]).directory
                           ELSE d.children[k]]]
    IN  [r EXCEPT !.collection = [i \in 1..Len(nodes) |-> Deep(r.collection[i])]]

CollectionReorganizeResult(nodes) ==
    LET order == StableSort([i \in 1..Len(nodes) |-> i],
                            [i \in 1..Len(nodes) |->
                                [j \in 1..Len(nodes) |-> StrLess(nodes[i].name, nodes[j].name)]])
    IN  ReorganizeLoop([collection |-> nodes, failed |-> FALSE, visited |-> <<>>], order)

-----------------------------------------------------------------------------
(* Digikey.soup_extract *)

\* url_prefix of soup_extract.
SoupUrlPrefix == <<"/", "p", "r", "o", "d", "u", "c", "t", "s", "/", "e", "n", "/">>

\* The children of a tag: a NavigableString with its text, or a nested Tag.
NavigableString(string) == [kind |-> "NavigableString", string |-> string]

Tag(name) == [kind |-> "Tag", string |-> None, name |-> name]

\* An <a> tag: a.get("href") and a.get("class") (None when the attribute is
\* missing), a.contents, and the name and the contents of a.parent.
Anchor(href, class, contents, parent_name, parent_contents) ==
    [href |-> href, class |-> class, contents |-> contents,
     parent |-> [name |-> parent_name, contents |-> parent_contents]]

\* The strings of the NavigableStrings among contents, one after the other.
NavigableText(contents) ==
    Concat([i \in 1..Len(contents) |->
               IF contents[i].kind = "NavigableString" THEN contents[i].string ELSE <<>>])

\* A filter that drops the bare prefix after the "?search" is cut off.
BareAfterSearch(href) ==
    /\ href # None
    /\ StartsWith(href, SoupUrlPrefix)
    /\ href # SoupUrlPrefix
    /\ ~StartsWith(href, SoupUrlPrefix \o <<"?">>)

\* `href is not None and href.startswith(url_prefix) and href != url_prefix`
IsProductHref(href) ==
    /\ href # None
    /\ StartsWith(href, SoupUrlPrefix)
    /\ href # SoupUrlPrefix

\* A dict whose lists grow at the front.
DictPrepend(table, key, match) ==
    IF key \in DOMAIN table
    THEN [table EXCEPT ![key] = <<match>> \o @]
    ELSE [k \in DOMAIN table \cup {key} |-> IF k = key THEN <<match>> ELSE table[k]]

\* matches.append(match), with matches the list of hrefs_table[href], made
\* first when the key is new.
DictAppend(table, key, match) ==
    IF key \in DOMAIN table
    THEN [table EXCEPT ![key] = Append(@, match)]
    ELSE [k \in DOMAIN table \cup {key} |-> IF k = key THEN <<match>> ELSE table[k]]

\* `hrefs_table: Dict[str, List[Match]] = dict()`: each call starts with a
\* dictionary of its own.
KeptDict == hrefs_table

EmptyDict == <<>>

\* One iteration of `for a in soup.find_all("a")`; failed is the ValueError
\* of int().
SoupStep(h, a) ==
    IF ~IsProductHref(a.href) THEN h
    ELSE LET question_mark_index == PyFind(a.href, <<"?">>)
             stripped == IF question_mark_index >= 0
                         THEN PySlice(a.href, 0, question_mark_index)
                         ELSE a.href
             href == PySlice(stripped, Len(SoupUrlPrefix), Len(stripped))
             slash_index == PyRFind(href, <<"/">>)
             parsed == PyInt(PySlice(href, slash_index + 1, Len(href)))
             base == IF slash_index >= 0
                     THEN PyReplace(PySlice(href, 0, slash_index), "/", "-")
                     ELSE href
             id == IF slash_index >= 0 THEN parsed.value ELSE -1
             a_contents_text == Strip(NavigableText(a.contents), Whitespace)
             li_contents_text ==
                 IF a.class # None /\ a.parent.name = "li"
                 THEN Strip(NavigableText(a.parent.contents), Whitespace)
                 ELSE <<>>
             url == UrlPrefix \o href
             match == Match(href, base, id, a_contents_text, li_contents_text, url)
         IN  IF slash_index >= 0 /\ ~parsed.ok
             THEN [h EXCEPT !.failed = TRUE]
             ELSE [h EXCEPT !.hrefs_table = DictAppend(@, href, match)]

RECURSIVE SoupLoop(_, _)
SoupLoop(h, anchors) ==
    IF anchors = <<>> \/ h.failed THEN h
    ELSE SoupLoop(SoupStep(h, Head(anchors)), Tail(anchors))

\* soup_extract(soup): the hrefs_table it returns, unless int() has failed.
SoupExtractResult(anchors) ==
    SoupLoop([hrefs_table |-> EmptyDict, failed |-> FALSE], anchors)

-----------------------------------------------------------------------------
(* csvs_download *)

\* The files of the model: csvs holds the names of the files for which
\* os.path.isfile() is true, root the entries below root_directory.
NoFiles == [csvs |-> {}, root |-> {}]

CsvsDirectory == <<"/", "c", "s", "v", "s">>

CsvSuffix == <<".", "c", "s", "v">>

\* csv_file_name = csvs_directory + "/" + base + ".csv"
CsvFileName(table) == CsvsDirectory \o <<"/">> \o table.base \o CsvSuffix

\* What a download does outside the program: time.sleep(60), requests.get()
\* for the id of a table, and the write of the file.
Sleep == [kind |-> "sleep", id |-> -1, file |-> None]

Get(table) == [kind |-> "get", id |-> table.id, file |-> None]

Write(table) == [kind |-> "write", id |-> table.id, file |-> CsvFileName(table)]

\* A pacing test that lets the second download through without delay.
DelaysFromThird(downloads_count) == downloads_count >= 2

\* `if downloads_count >= 1`
Delays(downloads_count) == downloads_count >= 1

\* A test of the file that never finds it.
NeverIsFile(csvs, table) == FALSE

\* os.path.isfile(csv_file_name)
IsFile(csvs, table) == CsvFileName(table) \in csvs

\* DigikeyTable.csvs_download(csvs_directory, downloads_count): s.gets counts
\* the calls of requests.get(), of which the s.fails_at-th raises (0: none
\* does); returned is the value the method returns.
TableCsvsDownload(table, s, downloads_count) ==
    IF IsFile(s.csvs, table)
    THEN [s |-> s, returned |-> downloads_count]
    ELSE LET delay == IF Delays(downloads_count) THEN <<Sleep>> ELSE <<>>
             asked == [s EXCEPT !.events = @ \o delay \o <<Get(table)>>, !.gets = @ + 1]
         IN  IF asked.gets = s.fails_at
             THEN [s |-> [asked EXCEPT !.failed = TRUE], returned |-> downloads_count]
             ELSE [s |-> [asked EXCEPT !.events = Append(@, Write(table)),
                                       !.csvs = @ \cup {CsvFileName(table)}],
                   returned |-> downloads_count + 1]

\* DigikeyDirectory.csvs_download(csvs_directory, downloads_count):
\* `downloads_count += sub_node.csvs_download(csvs_directory, downloads_count)`
\* for each child, a table or a directory.
RECURSIVE NodeCsvsDownload(_, _, _)
RECURSIVE ChildrenCsvsDownload(_, _, _)
ChildrenCsvsDownload(children, s, downloads_count) ==
    IF children = <<>> \/ s.failed THEN [s |-> s, returned |-> downloads_count]
    ELSE LET r == NodeCsvsDownload(Head(children), s, downloads_count)
         IN  ChildrenCsvsDownload(Tail(children), r.s, downloads_count + r.returned)

NodeCsvsDownload(node, s, downloads_count) ==
    IF IsTable(node) THEN TableCsvsDownload(node, s, downloads_count)
    ELSE ChildrenCsvsDownload(node.children, s, downloads_count)

\* The loop of Digikey.csvs_download:
\* `downloads_count = directory.csvs_download(csvs_directory, downloads_count)`
RECURSIVE CsvsDownloadLoop(_, _, _)
CsvsDownloadLoop(directories, s, downloads_count) ==
    IF directories = <<>> \/ s.failed THEN [s |-> s, returned |-> downloads_count]
    ELSE LET r == NodeCsvsDownload(Head(directories), s, downloads_count)
         IN  CsvsDownloadLoop(Tail(directories), r.s, r.returned)

\* Digikey.csvs_download(collection), with the files there are and the
\* call of requests.get() that fails.
CsvsDownloadResult(nodes, csvs, fails_at) ==
    CsvsDownloadLoop(nodes,
                     [csvs |-> csvs, events |-> <<>>, gets |-> 0, fails_at |-> fails_at,
                      failed |-> FALSE],
                     0)

-----------------------------------------------------------------------------
(* Digikey.root_directory_clear *)

\* root_directory: os.path.join(digikey_package_directory, "ROOT")
RootDirectory == <<"/", "R", "O", "O", "T">>

ReadmeMd == <<"R", "E", "A", "D", "M", "E", ".", "m", "d">>

\* An entry below root_directory: its path name, and whether it is a
\* directory.
Entry(name, dir) == [name |-> name, dir |-> dir]

\* The entries of the tree strictly below a path name.
Below(root, name) == {e \in root : StartsWith(e.name, name \o <<"/">>)}

\* The last component of a path name.
BaseName(name) == PySlice(name, PyRFind(name, <<"/">>) + 1, Len(name))

\* glob skips the names that begin with a dot, and what is below them.
Hidden(root, e) ==
    \/ Head(BaseName(e.name)) = "."
    \/ \E d \in root : e \in Below(root, d.name) /\ Head(BaseName(d.name)) = "."

\* glob.glob(root_directory + "/**", recursive=True): root_directory with a
\* "/" at its end, and the entries below it that are not hidden, in an
\* order that is up to the file system.
GlobLists(root) ==
    LET shown == {e.name : e \in {x \in root : ~Hidden(root, x)}}
    IN  {<<RootDirectory \o <<"/">>>> \o q :
            q \in {x \in [1..Cardinality(shown) -> shown] :
                       \A i, j \in 1..Cardinality(shown) : x[i] = x[j] => i = j}}

\* file_names.sort(key=lambda file_name: -len(file_name))
LongestFirst(file_names) ==
    StableSort(file_names,
               [i \in 1..Len(file_names) |->
                   [j \in 1..Len(file_names) |-> Len(file_names[i]) > Len(file_names[j])]])

\* What the loop does to a name: it keeps it, or calls os.rmdir or os.remove.
Visit(kind, file_name) == [kind |-> kind, id |-> -1, file |-> file_name]

\* `not (file_name.endswith("README.md") or file_name[:-1] == root_directory)`
Delete(file_name) ==
    ~(EndsWith(file_name, ReadmeMd) \/ PySlice(file_name, 0, -1) = RootDirectory)

\* One iteration of the loop; os.rmdir raises OSError (failed) for a
\* directory that is not empty.
ClearStep(c, file_name) ==
    LET entry == CHOOSE e \in c.root : e.name = file_name
    IN  IF ~Delete(file_name)
        THEN [c EXCEPT !.events = Append(@, Visit("keep", file_name))]
        ELSE IF entry.dir
        THEN IF Below(c.root, file_name) # {}
             THEN [c EXCEPT !.failed = TRUE]
             ELSE [c EXCEPT !.root = @ \ {entry},
                            !.events = Append(@, Visit("rmdir", file_name))]
        ELSE [c EXCEPT !.root = @ \ {entry},
                       !.events = Append(@, Visit("remove", file_name))]

RECURSIVE ClearLoop(_, _)
ClearLoop(c, file_names) ==
    IF file_names = <<>> \/ c.failed THEN c
    ELSE ClearLoop(ClearStep(c, Head(file_names)), Tail(file_names))

\* root_directory_clear() on the entries below root_directory, given the
\* list that glob returns.
RootDirectoryClearResult(root, listing) ==
    ClearLoop([root |-> root, events |-> <<>>, failed |-> FALSE], LongestFirst(listing))

-----------------------------------------------------------------------------
(* The inputs the model draws from *)

MaxMatches == 2

MaxTables == 3

MaxCalls == 2

MaxVerifyTables == 2

MaxPairTables == 2

MaxGroupTables == 4

MaxDownloadTables == 2

MaxFailAt == 2

MaxRootEntries == 4

\* The sequences over S of length 1..n, and of length 0..n without repeats.
SeqsUpTo(S, n) == UNION {[1..k -> S] : k \in 1..n}

DistinctSeqsUpTo(S, n) ==
    UNION {{q \in [1..k -> S] : \A i, j \in 1..k : q[i] = q[j] => i = j} : k \in 0..n}

Alpha == <<"A", "l", "p", "h", "a">>

Beta == <<"B", "e", "t", "a">>

SeeAll == <<"S", "e", "e", " ", "A", "l", "l">>

FiveItems == <<"(", "5", " ", "i", "t", "e", "m", "s", ")">>

KeyA1 == <<"a", "/", "1">>

KeyA2 == <<"a", "/", "2">>

KeyB3 == <<"b", "/", "3">>

BaseA == <<"a">>

BaseB == <<"b">>

\* A match as Digikey.soup_extract stores it under the key href.
KeyMatch(href, base, id, a_content, li_content) ==
    Match(href, base, id, a_content, li_content, UrlPrefix \o href)

\* The matches a key may have; the last one of KeyA2 carries the href of
\* another key.
MatchPool(key) ==
    IF key = KeyA1
    THEN {KeyMatch(KeyA1, BaseA, 1, Alpha, <<>>),
          KeyMatch(KeyA1, BaseA, 1, SeeAll, <<>>),
          KeyMatch(KeyA1, BaseA, 1, Alpha, FiveItems)}
    ELSE {KeyMatch(KeyA2, BaseA, 2, Alpha \o Separator \o Beta, FiveItems),
          KeyMatch(KeyA2, BaseA, 2, Alpha \o Separator \o Beta, <<>>),
          KeyMatch(KeyA2, BaseA, 2, SeeAll, <<>>),
          KeyMatch(KeyA2, BaseA, 2, SeeAll, FiveItems),
          KeyMatch(KeyA1, BaseA, 1, Alpha, <<>>)}

ExtractKeys == {KeyA1, KeyA2}

HrefsTables ==
    UNION {{f \in [K -> SeqsUpTo(UNION {MatchPool(k) : k \in K}, MaxMatches)] :
                \A k \in K : \A i \in 1..Len(f[k]) : f[k][i] \in MatchPool(k)} :
           K \in SUBSET ExtractKeys}

\* Collections and mappings for collection_verify alone: nodes and keys
\* over three keys, in any correspondence.
VerifyKeys == {KeyA1, KeyA2, KeyB3}

KeyBase(key) == IF key = KeyB3 THEN BaseB ELSE BaseA

KeyId(key) == IF key = KeyA1 THEN 1 ELSE IF key = KeyA2 THEN 2 ELSE 3

KeyTable(key) ==
    DigikeyTable(Alpha \o Separator \o Beta, KeyBase(key), KeyId(key), key, UrlPrefix \o key)

VerifyCollections ==
    {<<>>} \cup
    {<<[DigikeyDirectory(Alpha, KeyId(k), UrlPrefix \o k) EXCEPT !.children =
            [i \in 1..Len(q) |-> KeyTable(q[i])]]>> :
        k \in VerifyKeys, q \in {<<>>} \cup SeqsUpTo(VerifyKeys, MaxVerifyTables)}

VerifyTables ==
    {[k \in K |-> <<KeyMatch(k, KeyBase(k), KeyId(k), Alpha, <<>>)>>] : K \in SUBSET VerifyKeys}

\* Directories for reorganize: tables with distinct names, in any order of
\* insertion, each with a base, id and url of its own.
Connectors == <<"C", "o", "n", "n", "e", "c", "t", "o", "r", "s">>

Accessories == <<"A", "c", "c", "e", "s", "s", "o", "r", "i", "e", "s">>

Housings == <<"H", "o", "u", "s", "i", "n", "g", "s">>

Contacts == <<"C", "o", "n", "t", "a", "c", "t", "s">>

FiberOpticConnectors == <<"F", "i", "b", "e", "r", " ", "O", "p", "t", "i", "c", " ">> \o Connectors

ShortNames ==
    <<(<<"X">>),
      (<<"X", " ", "-", " ", "A">>),
      (<<"X", " ", "-", " ", "B">>),
      (<<"Y", " ", "-", " ", "A">>),
      (<<"Y", " ", " ", "-", " ", "B">>),
      (<<"Z">>),
      (<<"X", " ", "-", " ", "A", " ", "-", " ", "B">>)>>

CatalogNames ==
    <<Connectors \o Separator \o Accessories,
      Connectors \o Separator \o Housings,
      FiberOpticConnectors,
      FiberOpticConnectors \o Separator \o Accessories,
      FiberOpticConnectors \o Separator \o Contacts>>

TableNames == ShortNames \o CatalogNames

\* The table of the n-th name: base "t<n>", id 100 + n, href and url from
\* the key "t/<n>".
NamedTable(n) ==
    LET digits == IF n < 10 THEN <<Digits[n + 1]>>
                  ELSE <<Digits[(n \div 10) + 1], Digits[(n % 10) + 1]>>
        key == <<"t", "/">> \o digits
    IN  DigikeyTable(TableNames[n], <<"t">> \o digits, 100 + n, key, UrlPrefix \o key)

KeyD == <<"d", "/", "7">>

\* The names of two groups, "X" (with a table named "X" itself) and "Y".
TwoGroupNames == {1, 2, 3, 4, 5}

ReorganizeDirectories ==
    {[DigikeyDirectory(<<"D">>, 7, UrlPrefix \o KeyD) EXCEPT !.children =
            [i \in 1..Len(q) |-> NamedTable(q[i])]] :
        q \in DistinctSeqsUpTo(1..Len(ShortNames), MaxTables)
              \cup DistinctSeqsUpTo((Len(ShortNames) + 1)..Len(TableNames), MaxTables)
              \cup DistinctSeqsUpTo(TwoGroupNames, MaxGroupTables)}

\* Collections of two directories, "D" and "C", in either order of
\* insertion, each with tables of its own out of "X - A", "X - B", "Z" and
\* "X - A - B".
KeyC == <<"c", "/", "8">>

PairNames == {2, 3, 6, 7}

PairDirectories(name, id, key) ==
    {[DigikeyDirectory(name, id, UrlPrefix \o key) EXCEPT !.children =
            [i \in 1..Len(q) |-> NamedTable(q[i])]] :
        q \in DistinctSeqsUpTo(PairNames, MaxPairTables)}

ReorganizeCollections ==
    {<<d>> : d \in ReorganizeDirectories}
    \cup {<<d, c>> : d \in PairDirectories(<<"D">>, 7, KeyD), c \in PairDirectories(<<"C">>, 8, KeyC)}
    \cup {<<c, d>> : d \in PairDirectories(<<"D">>, 7, KeyD), c \in PairDirectories(<<"C">>, 8, KeyC)}

\* The pages for soup_extract: up to MaxAnchors <a> tags out of a pool with
\* every kind of href, plain or inside an <li> with a caption.
MaxAnchors == 3

About == <<"/", "a", "b", "o", "u", "t">>

SearchSuffix == <<"?", "s">>

HrefA1 == SoupUrlPrefix \o KeyA1

HrefAB2 == SoupUrlPrefix \o <<"a", "/", "b", "/", "2">>

HrefA == SoupUrlPrefix \o BaseA

HrefAX == SoupUrlPrefix \o <<"a", "/", "x">>

\* <div><a href=...>text</a> (5 items) </div>
Plain(href, text) ==
    Anchor(href, None, <<NavigableString(text)>>, "div",
           <<Tag("a"), NavigableString(<<" ">> \o FiveItems \o <<" ">>)>>)

\* <li>\n<a class=... href=...>\n <b>..</b>text </a> caption\n</li>
Listed(href, text, caption) ==
    Anchor(href, <<"x">>,
           <<NavigableString(<<"\n", " ">>), Tag("b"), NavigableString(text),
             NavigableString(<<" ">>)>>,
           "li",
           <<NavigableString(<<"\n">>), Tag("a"),
             NavigableString(<<" ">> \o caption), NavigableString(<<"\n">>)>>)

\* <div><a class=... href=...>text</a>(5 items)</div>
Classed(href, text) ==
    Anchor(href, <<"x">>, <<NavigableString(text)>>, "div",
           <<Tag("a"), NavigableString(FiveItems)>>)

AnchorPool ==
    {Plain(None, Alpha),
     Listed(About, Alpha, FiveItems),
     Listed(SoupUrlPrefix, Alpha, <<>>),
     Plain(SoupUrlPrefix \o SearchSuffix, SeeAll),
     Plain(HrefA1, Alpha),
     Listed(HrefA1 \o SearchSuffix, Alpha, FiveItems),
     Classed(HrefA1, Beta),
     Listed(HrefAB2, Alpha \o Separator \o Beta, FiveItems),
     Plain(HrefA, Alpha),
     Plain(HrefAX, Alpha)}

Soups == {<<>>} \cup SeqsUpTo(AnchorPool, MaxAnchors)

\* Pages of the shape of the products page: a category "P/n" as a plain
\* anchor, its sub-categories "P/S/m" as list items with a count; one of the
\* sub-categories of "a" has a name that begins with a digit.
MaxShapeKeys == 3

KeyA50 == <<"a", "/", "5", "0">>

KeyA3d5 == <<"a", "/", "3", "d", "/", "5">>

KeyAs7 == <<"a", "/", "s", "/", "7">>

KeyB6 == <<"b", "/", "6">>

KeyBs8 == <<"b", "/", "s", "/", "8">>

ShapeAnchors ==
    {Plain(SoupUrlPrefix \o KeyA50, Alpha),
     Listed(SoupUrlPrefix \o KeyA3d5, Alpha, FiveItems),
     Listed(SoupUrlPrefix \o KeyAs7, Beta, FiveItems),
     Plain(SoupUrlPrefix \o KeyB6, Beta),
     Listed(SoupUrlPrefix \o KeyBs8, Alpha, FiveItems)}

ShapeSoups == DistinctSeqsUpTo(ShapeAnchors, MaxShapeKeys)

\* The trees for csvs_download: one directory or two, of tables "X - A",
\* "X - B" and "Z" in any order, or a directory with table "Z" and a
\* sub-directory whose tables have bases of their own; and the .csv files
\* that are there beforehand.
DownloadNames == {2, 3, 6}

DownloadDirectories(name, id, key) ==
    {[DigikeyDirectory(name, id, UrlPrefix \o key) EXCEPT !.children =
            [i \in 1..Len(q) |-> NamedTable(q[i])]] :
        q \in DistinctSeqsUpTo(DownloadNames, MaxDownloadTables)}

NestedDirectories ==
    {[DigikeyDirectory(<<"D">>, 7, UrlPrefix \o KeyD) EXCEPT !.children =
            <<NamedTable(6), sub>>] :
        sub \in DownloadDirectories(<<"X">>, 8, KeyC)}

DownloadCollections ==
    {<<d>> : d \in DownloadDirectories(<<"D">>, 7, KeyD) \cup NestedDirectories}
    \cup {<<d, c>> : d \in DownloadDirectories(<<"D">>, 7, KeyD),
                     c \in DownloadDirectories(<<"C">>, 8, KeyC)}

DownloadFiles ==
    {[NoFiles EXCEPT !.csvs = F] : F \in SUBSET {CsvFileName(NamedTable(2)),
                                                 CsvFileName(NamedTable(3))}}

\* The trees below root_directory: up to MaxRootEntries entries, each with
\* the directories above it, out of files and directories of three levels,
\* README.md files and a hidden file among them.
RootPath(path) == RootDirectory \o <<"/">> \o path

RootPool ==
    {Entry(RootPath(ReadmeMd), FALSE),
     Entry(RootPath(<<"a">>), FALSE),
     Entry(RootPath(<<"d">>), TRUE),
     Entry(RootPath(<<"d", "/", "b">>), FALSE),
     Entry(RootPath(<<"d", "/", "R", "E", "A", "D", "M", "E", ".", "m", "d">>), FALSE),
     Entry(RootPath(<<"d", "/", ".", "h">>), FALSE),
     Entry(RootPath(<<"d", "/", "e">>), TRUE),
     Entry(RootPath(<<"d", "/", "e", "/", "c">>), FALSE)}

RootTrees ==
    {R \in SUBSET RootPool :
        /\ Cardinality(R) <= MaxRootEntries
        /\ \A e \in R : \A d \in RootPool : e \in Below(RootPool, d.name) => d \in R}

RootFiles == {[NoFiles EXCEPT !.root = R] : R \in RootTrees}

-----------------------------------------------------------------------------
(* The operations *)

NoCall ==
    [op |-> "none", before |-> <<>>, table |-> <<>>, files |-> NoFiles, index |-> 0,
     count |-> 0, visited |-> <<>>, events |-> <<>>, returned |-> 0, previous |-> "none",
     failed |-> FALSE, after_failure |-> FALSE]

Called(op, i) ==
    [op |-> op, before |-> collection, table |-> hrefs_table, files |-> disk, index |-> i,
     count |-> call.count + 1, visited |-> <<>>, events |-> <<>>, returned |-> 0,
     previous |-> call.op, failed |-> FALSE, after_failure |-> call.failed \/ call.after_failure]

\* The operation raised or returned.
Outcome(c, failed) == [c EXCEPT !.failed = failed]

\* An exception no stage catches: it leaves Digikey.process and main().
KeepsGoing(failed, return_pc) == return_pc

Raise(failed, return_pc) == IF failed THEN "aborted" ELSE return_pc

\* The statements of Digikey.process, in their order.
ProcessOrder ==
    <<"soup_read", "soup_extract", "collection_extract", "collection_verify",
      "collection_reorganize", "csvs_download", "root_directory_clear",
      "csvs_read_and_process">>

\* Digikey.soup_read(): open() of the products page raises when the file
\* cannot be read; otherwise the parsed page is returned.
SoupRead ==
    /\ pc = "soup_read"
    /\ \E opened \in BOOLEAN :
           /\ pc' = Raise(~opened, "soup_extract")
           /\ call' = Outcome(Called("soup_read", 0), ~opened)
    /\ UNCHANGED <<soup, disk, hrefs_table, collection>>

\* Digikey.soup_extract(soup), from Digikey.process.
SoupExtract ==
    /\ pc = "soup_extract"
    /\ LET r == SoupExtractResult(soup)
       IN  /\ hrefs_table' = IF r.failed THEN hrefs_table ELSE r.hrefs_table
           /\ pc' = Raise(r.failed, "collection_extract")
    /\ call' = Outcome(Called("soup_extract", 0), SoupExtractResult(soup).failed)
    /\ UNCHANGED <<soup, disk, collection>>

\* Digikey.collection_extract(hrefs_table), from Digikey.process.
CollectionExtract ==
    /\ pc = "collection_extract"
    /\ LET r == CollectionExtractResult(hrefs_table)
       IN  /\ collection' = IF r.failed THEN collection ELSE r.collection
           /\ pc' = Raise(r.failed, "collection_verify")
    /\ call' = [Called("collection_extract", 0) EXCEPT
                    !.visited = CollectionExtractResult(hrefs_table).visited,
                    !.failed = CollectionExtractResult(hrefs_table).failed]
    /\ UNCHANGED <<soup, disk, hrefs_table>>

\* Digikey.collection_verify(collection, hrefs_table).
CollectionVerify ==
    /\ pc = "collection_verify"
    /\ LET r == CollectionVerifyResult(collection, hrefs_table)
       IN  /\ hrefs_table' = r.hrefs_table
           /\ pc' = Raise(r.failed, "collection_reorganize")
    /\ call' = Outcome(Called("collection_verify", 0),
                        CollectionVerifyResult(collection, hrefs_table).failed)
    /\ UNCHANGED <<soup, disk, collection>>

\* Digikey.collection_reorganize(collection).
CollectionReorganize ==
    /\ pc = "collection_reorganize"
    /\ LET r == CollectionReorganizeResult(collection)
       IN  /\ collection' = r.collection
           /\ pc' = Raise(r.failed, "csvs_download")
    /\ call' = [Called("collection_reorganize", 0) EXCEPT
                    !.visited = CollectionReorganizeResult(collection).visited,
                    !.failed = CollectionReorganizeResult(collection).failed]
    /\ UNCHANGED <<soup, disk, hrefs_table>>

\* Digikey.csvs_download(collection); the fails_at-th requests.get() raises.
CsvsDownloadCall(fails_at, return_pc) ==
    /\ pc = "csvs_download"
    /\ LET r == CsvsDownloadResult(collection, disk.csvs, fails_at)
       IN  /\ disk' = [disk EXCEPT !.csvs = r.s.csvs]
           /\ pc' = Raise(r.s.failed, return_pc)
           /\ call' = [Called("csvs_download", 0) EXCEPT
                           !.events = r.s.events, !.returned = r.returned,
                           !.failed = r.s.failed]
    /\ UNCHANGED <<soup, hrefs_table, collection>>

\* The call from Digikey.process.
CsvsDownload == \E fails_at \in 0..MaxFailAt : CsvsDownloadCall(fails_at, "root_directory_clear")

\* A call that may be followed by another over the same tree.
CsvsDownloadAlone ==
    /\ call.count < MaxCalls
    /\ \E fails_at \in 0..MaxFailAt : CsvsDownloadCall(fails_at, "csvs_download")

\* Digikey.root_directory_clear(), with the list glob comes up with.
RootDirectoryClear ==
    /\ pc = "root_directory_clear"
    /\ \E listing \in GlobLists(disk.root) :
           LET r == RootDirectoryClearResult(disk.root, listing)
           IN  /\ disk' = [disk EXCEPT !.root = r.root]
               /\ pc' = Raise(r.failed, "csvs_read_and_process")
               /\ call' = [Called("root_directory_clear", 0) EXCEPT
                               !.events = r.events, !.failed = r.failed]
    /\ UNCHANGED <<soup, hrefs_table, collection>>

\* The tables csv_read_and_process comes to, directory by directory:
\* DigikeyDirectory.csv_read_and_process hands the call down to each child.
RECURSIVE TablesVisited(_)
TablesVisited(nodes) ==
    IF nodes = <<>> THEN <<>>
    ELSE (IF IsTable(Head(nodes)) THEN <<Head(nodes)>>
          ELSE TablesVisited(Head(nodes).children)) \o TablesVisited(Tail(nodes))

\* bom.Table.csv_read_and_process reads the .csv file of the table.
Process(table) == [kind |-> "process", id |-> table.id, file |-> CsvFileName(table)]

\* Digikey.csvs_read_and_process(collection, bind, gui); the fails_at-th
\* table's processing raises.
CsvsReadAndProcess ==
    /\ pc = "csvs_read_and_process"
    /\ \E fails_at \in 0..MaxFailAt :
           LET tables == TablesVisited(collection)
               failed == fails_at \in 1..Len(tables)
               done == IF failed THEN fails_at ELSE Len(tables)
           IN  /\ pc' = Raise(failed, "done")
               /\ call' = [Called("csvs_read_and_process", 0) EXCEPT
                               !.events = [i \in 1..done |-> Process(tables[i])],
                               !.failed = failed]
    /\ UNCHANGED <<soup, disk, hrefs_table, collection>>

\* main() run once more on the same page, after a run whose soup_extract and
\* collection_extract have returned: what the first run has left is still there.
ExtractAgain ==
    /\ pc = "collection_verify"
    /\ call.op = "collection_extract"
    /\ call.previous = "soup_extract"
    /\ call.count = 2
    /\ pc' = "soup_extract"
    /\ UNCHANGED <<soup, disk, hrefs_table, collection, call>>

\* DigikeyDirectory.reorganize() called on the i-th directory.
Reorganize(i) ==
    /\ pc = "reorganize"
    /\ call.count < MaxCalls
    /\ LET r == DirectoryReorganize(collection[i])
       IN  /\ collection' = [collection EXCEPT ![i] = r.directory]
           /\ pc' = Raise(r.failed, "reorganize")
    /\ call' = Outcome(Called("reorganize", i), DirectoryReorganize(collection[i]).failed)
    /\ UNCHANGED <<soup, disk, hrefs_table>>

-----------------------------------------------------------------------------
(* The specifications *)

\* Digikey.process from the table of hrefs on: extract, verify, reorganize.
Init ==
    /\ soup = <<>>
    /\ disk = NoFiles
    /\ hrefs_table \in HrefsTables
    /\ collection = <<>>
    /\ pc = "collection_extract"
    /\ call = NoCall

Next == CollectionExtract \/ CollectionVerify \/ CollectionReorganize

Spec == Init /\ [][Next]_vars

\* collection_verify on any collection and mapping.
InitVerify ==
    /\ soup = <<>>
    /\ disk = NoFiles
    /\ hrefs_table \in VerifyTables
    /\ collection \in VerifyCollections
    /\ pc = "collection_verify"
    /\ call = NoCall

NextVerify == CollectionVerify

SpecVerify == InitVerify /\ [][NextVerify]_vars

\* reorganize on any directory of tables, called directly or through
\* collection_reorganize.
InitReorganize ==
    /\ soup = <<>>
    /\ disk = NoFiles
    /\ hrefs_table = <<>>
    /\ collection \in ReorganizeCollections
    /\ pc \in {"reorganize", "collection_reorganize"}
    /\ call = NoCall

NextReorganize ==
    \/ \E i \in 1..Len(collection) : Reorganize(i)
    \/ CollectionReorganize

SpecReorganize == InitReorganize /\ [][NextReorganize]_vars

\* soup_extract on any page.
InitSoup ==
    /\ soup \in Soups
    /\ disk = NoFiles
    /\ hrefs_table = <<>>
    /\ collection = <<>>
    /\ pc = "soup_extract"
    /\ call = NoCall

NextSoup == SoupExtract

SpecSoup == InitSoup /\ [][NextSoup]_vars

\* csvs_download, once or again, on any tree, reorganized or not.
InitDownload ==
    /\ soup = <<>>
    /\ disk \in DownloadFiles
    /\ hrefs_table = <<>>
    /\ collection \in DownloadCollections
    /\ pc \in {"collection_reorganize", "csvs_download"}
    /\ call = NoCall

NextDownload == CollectionReorganize \/ CsvsDownloadAlone

SpecDownload == InitDownload /\ [][NextDownload]_vars

\* root_directory_clear on any tree of files.
InitClear ==
    /\ soup = <<>>
    /\ disk \in RootFiles
    /\ hrefs_table = <<>>
    /\ collection = <<>>
    /\ pc = "root_directory_clear"
    /\ call = NoCall

NextClear == RootDirectoryClear

SpecClear == InitClear /\ [][NextClear]_vars

\* The tree from its construction on: built by collection_extract in
\* Digikey.process, or given, and then reorganized.
InitTree == Init \/ InitReorganize

NextTree == Next \/ NextReorganize

SpecTree == InitTree /\ [][NextTree]_vars

\* soup_extract and collection_extract on any page, once and once more, and
\* collection_extract on any mapping.
InitBuild == InitSoup \/ Init

NextBuild == SoupExtract \/ CollectionExtract \/ ExtractAgain

SpecBuild == InitBuild /\ [][NextBuild]_vars

\* soup_extract and collection_extract on pages of the products page's shape.
InitKeys ==
    /\ soup \in ShapeSoups
    /\ disk = NoFiles
    /\ hrefs_table = <<>>
    /\ collection = <<>>
    /\ pc = "soup_extract"
    /\ call = NoCall

NextKeys == SoupExtract \/ CollectionExtract

SpecKeys == InitKeys /\ [][NextKeys]_vars

\* Digikey.process from its first statement on, for pages of one anchor,
\* and from each later stage on with the values that stage can be handed,
\* over a root directory that holds files.
ProcessSoups == {<<>>} \cup {<<a>> : a \in AnchorPool}

ProcessRoots ==
    {{Entry(RootPath(ReadmeMd), FALSE), Entry(RootPath(<<"a">>), FALSE)},
     {Entry(RootPath(<<"d">>), TRUE), Entry(RootPath(<<"d", "/", "b">>), FALSE)},
     {Entry(RootPath(<<"d">>), TRUE),
      Entry(RootPath(<<"d", "/", "R", "E", "A", "D", "M", "E", ".", "m", "d">>), FALSE)}}

InitProcess ==
    /\ call = NoCall
    /\ \E root \in ProcessRoots :
        \/ /\ pc = "soup_read"
           /\ soup \in ProcessSoups
           /\ disk = [NoFiles EXCEPT !.root = root]
           /\ hrefs_table = <<>>
           /\ collection = <<>>
        \/ /\ pc = "collection_extract"
           /\ soup = <<>>
           /\ disk = [NoFiles EXCEPT !.root = root]
           /\ hrefs_table \in HrefsTables
           /\ collection = <<>>
        \/ /\ pc = "collection_verify"
           /\ soup = <<>>
           /\ disk = [NoFiles EXCEPT !.root = root]
           /\ hrefs_table \in VerifyTables
           /\ collection \in VerifyCollections
        \/ /\ pc = "collection_reorganize"
           /\ soup = <<>>
           /\ disk \in {[d EXCEPT !.root = root] : d \in DownloadFiles}
           /\ hrefs_table = <<>>
           /\ collection \in DownloadCollections

NextProcess ==
    \/ SoupRead
    \/ SoupExtract
    \/ CollectionExtract
    \/ CollectionVerify
    \/ CollectionReorganize
    \/ CsvsDownload
    \/ RootDirectoryClear
    \/ CsvsReadAndProcess

SpecProcess == InitProcess /\ [][NextProcess]_vars

-----------------------------------------------------------------------------
(* What the claims speak of *)

\* collection_extract has returned its collection.
ExtractReturned == call.op = "collection_extract" /\ pc = "collection_verify"

\* The scan order of a key's matches, and the qualifying labels and the
\* item-count captions in it.
ScanOrder(matches) == Reversed(SortedMatches(matches))

Qualifies(match) == match.a_content # <<>> /\ ~StartsWith(match.a_content, See)

\* The first match of the scan with a qualifying label (0: none).
Winner(matches) ==
    LET scan == ScanOrder(matches)
        hits == {i \in 1..Len(scan) : Qualifies(scan[i])}
    IN  IF hits = {} THEN 0 ELSE SetMin(hits)

\* The count of a caption "(<digits> items)", -1 for any other caption.
CaptionCount(caption) ==
    LET middle == SubSeq(caption, 2, Len(caption) - Len(ItemsPattern))
    IN  IF /\ StartsWith(caption, OpenParenthesis)
           /\ EndsWith(caption, ItemsPattern)
           /\ middle # <<>>
           /\ \A i \in 1..Len(middle) : IsDigit(middle[i])
        THEN DigitsValue(middle, 0) ELSE -1

\* The count of the first such caption of the scan, -1 when there is none.
ItemCount(matches) ==
    LET scan == ScanOrder(matches)
        hits == {i \in 1..Len(scan) : CaptionCount(scan[i].li_content) >= 0}
    IN  IF hits = {} THEN -1 ELSE CaptionCount(scan[SetMin(hits)].li_content)

WinningMatch(key) == ScanOrder(hrefs_table[key])[Winner(hrefs_table[key])]

WinningLabel(key) == Strip(WinningMatch(key).a_content, Whitespace)

IsDirectoryKey(key) == Winner(hrefs_table[key]) # 0 /\ ItemCount(hrefs_table[key]) < 0

IsTableKey(key) == Winner(hrefs_table[key]) # 0 /\ ItemCount(hrefs_table[key]) >= 0

Elements(seq) == {seq[i] : i \in 1..Len(seq)}

\* The number of positions of seq that hold a member of S.
Count(seq, S) == Cardinality({i \in 1..Len(seq) : seq[i] \in S})

\* C1: after collection_extract, every key with a qualifying label and no
\* item count has exactly one Directory of that label, nonce and url among
\* the children of the collection.
C1_DirectoryPerDirectoryKey ==
    ExtractReturned =>
        \A key \in DOMAIN hrefs_table :
            IsDirectoryKey(key) =>
                Count(collection, {d \in Elements(collection) :
                                      /\ d.name = WinningLabel(key)
                                      /\ d.id = WinningMatch(key).id
                                      /\ d.url = WinningMatch(key).url}) = 1

\* The mapping of the example: a/1 is "Alpha" with an empty caption, a/2 is
\* "Alpha - Beta" with the caption "(5 items)".
ExampleTable ==
    (KeyA1 :> <<KeyMatch(KeyA1, BaseA, 1, Alpha, <<>>)>>)
    @@ (KeyA2 :> <<KeyMatch(KeyA2, BaseA, 2, Alpha \o Separator \o Beta, FiveItems)>>)

ExampleCollection ==
    <<AppendChild(DigikeyDirectory(Alpha, 1, UrlPrefix \o KeyA1),
                  DigikeyTable(Alpha \o Separator \o Beta, BaseA, 2, KeyA2, UrlPrefix \o KeyA2))>>

\* C2: after collection_extract, every key with a qualifying label and an
\* item count >= 0 has exactly one Table (label, base, nonce, href, url),
\* and it is a child of the directory of the nearest directory key before
\* it in sorted order; the example mapping gives directory "Alpha" holding
\* table "Alpha - Beta".
C2_TableUnderNearestDirectory ==
    ExtractReturned =>
        /\ \A key \in DOMAIN hrefs_table :
               LET m == WinningMatch(key)
                   table == DigikeyTable(WinningLabel(key), m.base, m.id, m.href, m.url)
                   before == {k \in DOMAIN hrefs_table : StrLess(k, key) /\ IsDirectoryKey(k)}
                   nearest == CHOOSE k \in before : \A j \in before : j = k \/ StrLess(j, k)
                   holders == {d \in Elements(collection) :
                                  /\ d.url = WinningMatch(nearest).url
                                  /\ Count(d.children, {table}) = 1}
               IN  (IsTableKey(key) /\ before # {}) =>
                       /\ Count(TablesGet(collection), {table}) = 1
                       /\ Count(collection, holders) = 1
        /\ hrefs_table = ExampleTable => collection = ExampleCollection

\* C3: after collection_extract, the node of every key with a qualifying
\* label is named by the label of the first qualifying match in the reverse
\* of the sorted order of the key's matches.
C3_WinningLabelNamesNode ==
    ExtractReturned =>
        \A key \in DOMAIN hrefs_table :
            Winner(hrefs_table[key]) # 0 =>
                \E node \in Elements(DirectoriesGet(collection) \o TablesGet(collection)) :
                    node.url = WinningMatch(key).url /\ node.name = WinningLabel(key)

\* C4: after collection_extract, a key with a qualifying label whose
\* reverse scan meets a caption "(<digits> items)", on the winning match or
\* on another one, yields a Table and not a Directory.
C4_CountFromAnyCaption ==
    ExtractReturned =>
        \A key \in DOMAIN hrefs_table :
            IsTableKey(key) =>
                /\ \E t \in Elements(TablesGet(collection)) : t.url = WinningMatch(key).url
                /\ \A d \in Elements(DirectoriesGet(collection)) : d.url # WinningMatch(key).url

\* C5: after collection_extract on a mapping each of whose keys has a
\* qualifying label, the directories and the tables of the tree are as many
\* as the keys of the mapping.
C5_NodesAsManyAsKeys ==
    (ExtractReturned /\ \A key \in DOMAIN hrefs_table : Winner(hrefs_table[key]) # 0) =>
        Len(DirectoriesGet(collection)) + Len(TablesGet(collection))
            = Cardinality(DOMAIN hrefs_table)

\* collection_verify has returned without a failed assertion.
VerifyReturned == call.op = "collection_verify" /\ pc # "aborted"

NodeKey(node) == SubSeq(node.url, Len(UrlPrefix) + 1, Len(node.url))

\* C6: when the counts of nodes and of keys disagree, collection_verify
\* returns normally only if no key of the mapping is left without a node
\* and every Table and Directory has its key in the mapping.
C6_VerifyAbortsOnMismatch ==
    LET nodes == DirectoriesGet(collection) \o TablesGet(collection)
    IN  (VerifyReturned /\ Len(nodes) # Cardinality(DOMAIN hrefs_table)) =>
            /\ \A key \in DOMAIN hrefs_table : \E n \in Elements(nodes) : NodeKey(n) = key
            /\ \A n \in Elements(nodes) : NodeKey(n) \in DOMAIN hrefs_table

\* DigikeyDirectory.reorganize has returned from a call on a directory; the
\* directory as it was before the call, and as it is now.
ReorganizeReturned == call.op = "reorganize" /\ pc # "aborted"

Before == call.before[call.index]

After == collection[call.index]

TableChildren(directory) == {c \in Elements(directory.children) : IsTable(c)}

SubDirectories(directory, name) ==
    {c \in Elements(directory.children) : IsDirectory(c) /\ c.name = name}

ChildNames(directory) == [i \in 1..Len(directory.children) |-> directory.children[i].name]

\* The group of a name: the text before its first " - ", trimmed; None
\* for a name without " - ".
SeparatorsIn(name) ==
    {i \in 1..Len(name) : i + 2 <= Len(name) /\ SubSeq(name, i, i + 2) = Separator}

GroupOf(name) ==
    IF SeparatorsIn(name) = {} THEN None
    ELSE Strip(SubSeq(name, 1, SetMin(SeparatorsIn(name)) - 1), Whitespace)

GroupMembers(directory, group) ==
    {t \in TableChildren(directory) : GroupOf(t.name) = group}

\* C7: after reorganize, for every group name shared by at least two tables
\* of D, no direct table child of D has that group, and D has exactly one
\* sub-directory of that name, which holds each of those tables once, under
\* its old name.
C7_SharedGroupMovesToSubDirectory ==
    ReorganizeReturned =>
        \A group \in {GroupOf(t.name) : t \in TableChildren(Before)} \ {None} :
            Cardinality(GroupMembers(Before, group)) >= 2 =>
                /\ GroupMembers(After, group) = {}
                /\ Count(After.children, SubDirectories(After, group)) = 1
                /\ \A sub \in SubDirectories(After, group) :
                       \A t \in GroupMembers(Before, group) :
                           Count(sub.children, {c \in TableChildren(sub) : c.name = t.name}) = 1

\* C7 has acted: "Connectors - Accessories" and "Connectors - Housings" were
\* the tables of D, and D now holds the one sub-directory "Connectors".
C7_Witness ==
    /\ ReorganizeReturned
    /\ Elements(ChildNames(Before)) =
           {Connectors \o Separator \o Accessories, Connectors \o Separator \o Housings}
    /\ ChildNames(After) = <<Connectors>>
    /\ ChildNames(After.children[1]) =
           <<Connectors \o Separator \o Accessories, Connectors \o Separator \o Housings>>

\* C8: after reorganize, a table "X - Y" of D with no sibling of group X and
\* no sibling named X is still a direct child of D, unchanged, and D has no
\* sub-directory X.
C8_LoneGroupStays ==
    ReorganizeReturned =>
        \A t \in TableChildren(Before) :
            (/\ GroupOf(t.name) # None
             /\ GroupMembers(Before, GroupOf(t.name)) = {t}
             /\ \A u \in TableChildren(Before) : u.name # GroupOf(t.name)) =>
                /\ Count(After.children, {t}) = 1
                /\ SubDirectories(After, GroupOf(t.name)) = {}

\* C8 has acted: D held a lone "Y - A" beside a group that was promoted.
C8_Witness ==
    /\ ReorganizeReturned
    /\ \E t \in TableChildren(Before) :
           /\ GroupOf(t.name) = <<"Y">>
           /\ GroupMembers(Before, <<"Y">>) = {t}
           /\ t \in TableChildren(After)
    /\ SubDirectories(After, <<"X">>) # {}

\* C9: reorganize of a directory none of whose table names contains " - "
\* leaves the directory as it was, on the first call and on the next.
C9_NoSeparatorNoChange ==
    (ReorganizeReturned /\ \A c \in Elements(Before.children) : GroupOf(c.name) = None) =>
        After = Before

\* C9 has acted: the second reorganize of a directory of two or more
\* tables without " - " has returned.
C9_Witness ==
    /\ ReorganizeReturned
    /\ call.count = 2
    /\ Len(Before.children) >= 2
    /\ \A c \in Elements(Before.children) : IsTable(c) /\ GroupOf(c.name) = None

\* C10: after reorganize, a table named exactly X that has siblings of
\* group X is in the single sub-directory X together with them, none of
\* them is left a direct child of D, and the three "Fiber Optic Connectors"
\* tables end as the three tables of one sub-directory of that name.
C10_CollisionJoinsGroup ==
    ReorganizeReturned =>
        /\ \A x \in TableChildren(Before) :
               GroupMembers(Before, x.name) # {} =>
                   LET moved == {x.name} \cup {t.name : t \in GroupMembers(Before, x.name)}
                   IN  /\ \A c \in TableChildren(After) : c.name \notin moved
                       /\ Count(After.children, SubDirectories(After, x.name)) = 1
                       /\ \A sub \in SubDirectories(After, x.name) :
                              /\ Elements(ChildNames(sub)) = moved
                              /\ Len(sub.children) = Cardinality(moved)
                              /\ \A c \in Elements(sub.children) : IsTable(c)
        /\ Elements(ChildNames(Before)) =
               {FiberOpticConnectors,
                FiberOpticConnectors \o Separator \o Accessories,
                FiberOpticConnectors \o Separator \o Contacts} =>
               /\ ChildNames(After) = <<FiberOpticConnectors>>
               /\ ChildNames(After.children[1]) =
                      <<FiberOpticConnectors,
                        FiberOpticConnectors \o Separator \o Accessories,
                        FiberOpticConnectors \o Separator \o Contacts>>

\* C10 has acted: the three "Fiber Optic Connectors" tables were the tables
\* of D and reorganize has returned with one child left in D.
C10_Witness ==
    /\ ReorganizeReturned
    /\ Elements(ChildNames(Before)) =
           {FiberOpticConnectors,
            FiberOpticConnectors \o Separator \o Accessories,
            FiberOpticConnectors \o Separator \o Contacts}
    /\ Len(After.children) = 1
    /\ IsDirectory(After.children[1])

\* The sub-directories reorganize has put into the directory.
NewSubDirectories == {c \in Elements(After.children) : IsDirectory(c)}

\* C11: after reorganize, every table of a new sub-directory is the table of
\* D of the same name with its base, id and url, and an empty href.
C11_RecreatedTablesKeepFields ==
    ReorganizeReturned =>
        \A sub \in NewSubDirectories :
            \A c \in Elements(sub.children) :
                \E t \in TableChildren(Before) :
                    c = DigikeyTable(t.name, t.base, t.id, <<>>, t.url)

\* C12: after reorganize, every new sub-directory has the id and the url of
\* the directory that was reorganized.
C12_SubDirectoryCarriesParentIdUrl ==
    ReorganizeReturned =>
        \A sub \in NewSubDirectories : sub.id = Before.id /\ sub.url = Before.url

\* A key that dispatches to a Table and has no directory key before it in
\* sorted order.
TableKeyBeforeDirectory ==
    \E key \in DOMAIN hrefs_table :
        /\ IsTableKey(key)
        /\ \A k \in DOMAIN hrefs_table : IsDirectoryKey(k) => ~StrLess(k, key)

\* C17: collection_extract aborts, returning no tree, when a key that
\* dispatches to a Table is met, in sorted key order, before any key has
\* created a Directory.
C17_TableBeforeDirectoryAborts ==
    (call.op = "collection_extract" /\ TableKeyBeforeDirectory) => pc = "aborted"

\* collection_reorganize has been called, and has returned.
PassCalled == call.op = "collection_reorganize"

PassReturned == PassCalled /\ pc # "aborted"

\* The tables that reorganize has put one level down, into a sub-directory
\* of the i-th directory of the collection.
Regrouped(i) ==
    UNION {Elements(sub.children) :
               sub \in {c \in Elements(collection[i].children) : IsDirectory(c)}}

\* C13: collection_reorganize calls reorganize once on each directory the
\* collection had when the pass began and on nothing else, so that a
\* sub-directory of the pass holds tables only, each one of the group (or
\* of the very name) of the sub-directory: "X - A - B" is in sub-directory
\* "X", with no sub-directory below it.
C13_OnePassOneLevel ==
    /\ PassCalled =>
           \A i \in 1..Len(call.before) : Count(call.visited, {i}) <= 1
    /\ PassReturned =>
           /\ Len(call.visited) = Len(call.before)
           /\ \A i \in 1..Len(call.before) :
                  /\ Count(call.visited, {i}) = 1
                  /\ \A sub \in Elements(collection[i].children) :
                         IsDirectory(sub) =>
                             \A t \in Elements(sub.children) :
                                 /\ IsTable(t)
                                    /\ (GroupOf(t.name) = sub.name \/ t.name = sub.name)

\* Both directories of a collection have been regrouped, and "X - A - B"
\* is one of the tables that moved.
C13_Witness ==
    /\ PassReturned
    /\ Len(collection) = 2
    /\ \A i \in 1..2 : Regrouped(i) # {}
    /\ \E t \in Regrouped(1) : t.name = ShortNames[7]

\* The number of places in the tree below nodes where a table of this name
\* is attached.
Attachments(nodes, name) ==
    LET tables == TablesGet(nodes)
    IN  Cardinality({k \in 1..Len(tables) : tables[k].name = name})

TableNamesBelow(nodes) == {t.name : t \in Elements(TablesGet(nodes))}

\* C18: at the end of collection_extract every table of the tree is
\* attached in exactly one place, and at the end of collection_reorganize
\* every table a directory had before the pass has exactly one counterpart
\* below that directory, and nothing else is attached there.
C18_TableInExactlyOneDirectory ==
    /\ ExtractReturned =>
           \A t \in Elements(TablesGet(collection)) :
               Cardinality({k \in 1..Len(TablesGet(collection)) :
                                TablesGet(collection)[k] = t}) = 1
    /\ PassReturned =>
           \A i \in 1..Len(call.before) :
               /\ TableNamesBelow(<<collection[i]>>) = TableNamesBelow(<<call.before[i]>>)
               /\ \A name \in TableNamesBelow(<<call.before[i]>>) :
                      Attachments(<<collection[i]>>, name) = 1

\* A pass over two directories has moved the tables of the first one into
\* a sub-directory and has left a table of the second one where it was.
C18_Witness ==
    /\ PassReturned
    /\ Len(collection) = 2
    /\ Regrouped(1) # {}
    /\ TableChildren(collection[2]) # {}

\* No two positions of the sequence hold the same value.
Distinct(seq) == \A i, j \in 1..Len(seq) : seq[i] = seq[j] => i = j

\* C19: when the children of D have distinct names before reorganize, then
\* after it the children of D, tables and new sub-directories alike, have
\* distinct names, and so have the tables of every new sub-directory.
C19_ChildNamesStayDistinct ==
    (ReorganizeReturned /\ Distinct(ChildNames(Before))) =>
        /\ Distinct(ChildNames(After))
        /\ \A sub \in NewSubDirectories : Distinct(ChildNames(sub))

\* A table of D bore the name of a group: it is now inside the
\* sub-directory of that name, next to a table that stayed in D.
C19_Witness ==
    /\ ReorganizeReturned
    /\ Distinct(ChildNames(Before))
    /\ \E sub \in NewSubDirectories :
           /\ \E t \in TableChildren(Before) : t.name = sub.name
           /\ Len(sub.children) >= 2
    /\ TableChildren(After) # {}

\* C20: after collection_verify, returned or aborted, the tree and the
\* mapping are what they were before the call.
C20_VerifyChangesNothing ==
    call.op = "collection_verify" =>
        /\ collection = call.before
        /\ hrefs_table = call.table

\* collection_verify went through the loops and deleted the key of a node
\* from its copy.
C20_Witness ==
    /\ call.op = "collection_verify"
    /\ LET r == CollectionVerifyResult(call.before, call.table)
       IN  r.checked /\ r.keys # DOMAIN call.table

\* soup_extract has returned its mapping.
SoupReturned == call.op = "soup_extract" /\ pc # "aborted"

\* The hrefs that are the bare prefix followed by a "?query" suffix.
IsBarePrefixQuery(href) == href # None /\ StartsWith(href, SoupUrlPrefix \o <<"?">>)

\* C14 as stated: soup_extract never puts the empty-string key into the
\* mapping it returns, not even for an anchor whose href is the bare prefix
\* followed by a "?query" suffix.
C14_NoEmptyKey == SoupReturned => <<>> \notin DOMAIN hrefs_table

\* C14, amended: soup_extract skips an anchor whose href is the bare prefix
\* itself, and stores an anchor whose href is the bare prefix followed by a
\* "?query" suffix under the empty-string key, with base "", nonce -1 and
\* the absolute prefix as url; the mapping has the empty-string key exactly
\* when the page has such an anchor.
C14_EmptyKeyOnlyFromBareQuery ==
    SoupReturned =>
        /\ <<>> \in DOMAIN hrefs_table <=>
               \E i \in 1..Len(soup) : IsBarePrefixQuery(soup[i].href)
        /\ <<>> \in DOMAIN hrefs_table =>
               /\ Len(hrefs_table[<<>>]) =
                      Cardinality({i \in 1..Len(soup) : IsBarePrefixQuery(soup[i].href)})
               /\ \A m \in Elements(hrefs_table[<<>>]) :
                      m.href = <<>> /\ m.base = <<>> /\ m.id = -1 /\ m.url = UrlPrefix

\* The page holds an anchor with the bare prefix, which is skipped, and one
\* with the bare prefix and a query, which is stored under the empty key.
C14_Witness ==
    /\ SoupReturned
    /\ \E i \in 1..Len(soup) : soup[i].href = SoupUrlPrefix
    /\ \E i \in 1..Len(soup) : IsBarePrefixQuery(soup[i].href)
    /\ DOMAIN hrefs_table = {<<>>}

\* The anchors that the claims say contribute: an href is there and starts
\* with the prefix (and, by C14, is more than the prefix).
Contributes(i) ==
    /\ soup[i].href # None
    /\ StartsWith(soup[i].href, SoupUrlPrefix)
    /\ soup[i].href # SoupUrlPrefix

\* The key of an href as the claims describe it: what comes before the
\* first "?", less the prefix.
KeyOf(href) ==
    LET marks == {i \in 1..Len(href) : href[i] = "?"}
        end == IF marks = {} THEN Len(href) ELSE SetMin(marks) - 1
    IN  SubSeq(href, Len(SoupUrlPrefix) + 1, end)

\* The contributing anchors of a key, and the k-th of them in the document.
AnchorsOf(key) == {i \in 1..Len(soup) : Contributes(i) /\ KeyOf(soup[i].href) = key}

NthAnchorOf(key, k) ==
    CHOOSE i \in AnchorsOf(key) : Cardinality({j \in AnchorsOf(key) : j <= i}) = k

\* C15: the mapping soup_extract returns has the keys of the contributing
\* anchors (href less "?query" and prefix) and no other; the list of a key
\* has one Match for each anchor of that key, whatever its query, in the
\* order of the anchors in the document; anchors without href or with an
\* href that does not start with the prefix add nothing.
C15_KeysAndDocumentOrder ==
    SoupReturned =>
        /\ DOMAIN hrefs_table = {KeyOf(soup[i].href) : i \in {j \in 1..Len(soup) : Contributes(j)}}
        /\ \A key \in DOMAIN hrefs_table :
               /\ Len(hrefs_table[key]) = Cardinality(AnchorsOf(key))
               /\ \A k \in 1..Len(hrefs_table[key]) :
                      LET a == soup[NthAnchorOf(key, k)]
                          m == hrefs_table[key][k]
                      IN  /\ m.href = key
                          /\ m.a_content = Strip(NavigableText(a.contents), Whitespace)
                          /\ (a.class = None => m.li_content = <<>>)
                          /\ (m.li_content # <<>> => a.parent.name = "li")

\* Two anchors of one key, with and without a query and with different
\* texts, and an anchor that adds nothing.
C15_Witness ==
    /\ SoupReturned
    /\ \E key \in DOMAIN hrefs_table :
           /\ Len(hrefs_table[key]) = 2
           /\ hrefs_table[key][1].a_content # hrefs_table[key][2].a_content
           /\ soup[NthAnchorOf(key, 1)].href # soup[NthAnchorOf(key, 2)].href
    /\ \E i \in 1..Len(soup) : ~Contributes(i)

\* The parts of a key as the claims describe them.
LastSlash(key) == SetMax({i \in 1..Len(key) : key[i] = "/"})

HasSlash(key) == \E i \in 1..Len(key) : key[i] = "/"

BaseOf(key) ==
    IF HasSlash(key)
    THEN [i \in 1..(LastSlash(key) - 1) |-> IF key[i] = "/" THEN "-" ELSE key[i]]
    ELSE key

NonceOf(key) ==
    IF HasSlash(key)
    THEN DigitsValue(SubSeq(key, LastSlash(key) + 1, Len(key)), 0)
    ELSE -1

\* C16: every Match of the mapping soup_extract returns has, for a key with
\* a "/", the part before the last "/" with "-" for every "/" as base and
\* the integer after the last "/" as nonce, and for a key without "/" the
\* key as base and -1 as nonce; its url is the absolute prefix and the key.
C16_BaseNonceUrl ==
    SoupReturned =>
        \A key \in DOMAIN hrefs_table :
            \A m \in Elements(hrefs_table[key]) :
                /\ m.base = BaseOf(key)
                /\ m.id = NonceOf(key)
                /\ m.url = UrlPrefix \o key

\* The mapping has a key with two "/" and a key with none.
C16_Witness ==
    /\ SoupReturned
    /\ \E key \in DOMAIN hrefs_table :
           /\ HasSlash(key)
           /\ \E i \in 1..(LastSlash(key) - 1) : key[i] = "/"
           /\ \E m \in Elements(hrefs_table[key]) : m.id > 0
    /\ \E key \in DOMAIN hrefs_table : ~HasSlash(key) /\ key # <<>>

\* The positions of the sub-directories among the children of a directory.
SubDirectoryPositions(directory) ==
    {i \in 1..Len(directory.children) : IsDirectory(directory.children[i])}

\* The names of the sequence ascend strictly from position to position.
Ascending(names) ==
    \A i, j \in 1..Len(names) : i < j => StrLess(names[i], names[j])

\* C25: reorganize creates (appends to D) the sub-directories in ascending
\* group_name order, after the tables that stay, and creates the tables of
\* each sub-directory in ascending name order, a table named like the group
\* included.
C25_CreatedInAscendingOrder ==
    ReorganizeReturned =>
        /\ \A i, j \in SubDirectoryPositions(After) :
               i < j => StrLess(After.children[i].name, After.children[j].name)
        /\ \A i \in SubDirectoryPositions(After) :
               /\ Ascending(ChildNames(After.children[i]))
               /\ \A k \in 1..Len(After.children) :
                      IsTable(After.children[k]) => k < i

\* Two sub-directories were created, out of tables that D held in
\* descending name order, one of them named like its group.
C25_Witness ==
    /\ ReorganizeReturned
    /\ Cardinality(SubDirectoryPositions(After)) = 2
    /\ Len(Before.children) = 4
    /\ \A i, j \in 1..4 :
           i < j => StrLess(Before.children[j].name, Before.children[i].name)
    /\ \E sub \in NewSubDirectories : \E t \in Elements(sub.children) : t.name = sub.name

\* groups_table of reorganize on a directory, as it stands when the tables
\* are detached (after the pruning of lines 968-974).
GroupsTable(directory) ==
    PruneGroups(MatchLoop(GroupLoop(GroupInit, SortedByName(directory.children)),
                          directory.children).groups)

\* The places of groups_table that hold the table.
GroupPlaces(directory, table) ==
    LET groups == GroupsTable(directory)
    IN  {<<g, k>> \in (1..Len(groups)) \X (1..Len(directory.children) * 2) :
             /\ k <= Len(groups[g].tables_list)
             /\ groups[g].tables_list[k] = table}

DownloadCalled == call.op = "csvs_download"

DownloadReturned == DownloadCalled /\ pc # "aborted"

\* The positions of the events of a kind in the last call.
EventsOf(kind) == {i \in 1..Len(call.events) : call.events[i].kind = kind}

\* C21: a table whose file <csvs_directory>/<base>.csv is there is neither
\* fetched nor written nor waited for, and its csvs_download returns the
\* running count as it got it; a Digikey.csvs_download that follows another
\* one over the same tree performs no fetch.
C21_DownloadIsIdempotent ==
    DownloadCalled =>
        /\ \A t \in Elements(TablesGet(collection)) :
               IsFile(call.files.csvs, t) =>
                   /\ \A i \in 1..Len(call.events) :
                          call.events[i].id # t.id /\ call.events[i].file # CsvFileName(t)
                   /\ \A downloads_count \in 0..Len(TablesGet(collection)) :
                          LET s == [csvs |-> call.files.csvs, events |-> <<>>, gets |-> 0,
                                    fails_at |-> 0, failed |-> FALSE]
                          IN  TableCsvsDownload(t, s, downloads_count)
                                  = [s |-> s, returned |-> downloads_count]
        /\ call.previous = "csvs_download" => call.events = <<>> /\ disk = call.files

\* A second csvs_download over a tree of several tables, whose files are
\* all there by now.
C21_Witness ==
    /\ DownloadReturned
    /\ call.previous = "csvs_download"
    /\ Len(TablesGet(collection)) >= 3
    /\ \A t \in Elements(TablesGet(collection)) : IsFile(disk.csvs, t)
    /\ Cardinality(disk.csvs) >= 3

\* C26: in one Digikey.csvs_download the fetches come one after the other,
\* each followed by the write of its file before anything else happens; the
\* first fetch has no delay before it, every later one has the pacing delay
\* right before it, and there is no other delay.
C26_DelayBeforeEveryLaterFetch ==
    DownloadCalled =>
        /\ \A i \in EventsOf("get") :
               /\ i = SetMin(EventsOf("get")) => (i = 1 \/ call.events[i - 1].kind # "sleep")
               /\ i # SetMin(EventsOf("get")) => (i > 1 /\ call.events[i - 1].kind = "sleep")
               /\ i = Len(call.events) \/ call.events[i + 1] = [call.events[i] EXCEPT
                                                                  !.kind = "write", !.file = call.events[i + 1].file]
        /\ \A i \in EventsOf("sleep") :
               i < Len(call.events) /\ call.events[i + 1].kind = "get"
        /\ \A i \in EventsOf("write") : i > 1 /\ call.events[i - 1].kind = "get"

\* Two fetches, the second one delayed, in a directory of one table and a
\* sub-directory of two, one of which had its file.
C26_Witness ==
    /\ DownloadReturned
    /\ Cardinality(EventsOf("get")) = 2
    /\ Cardinality(EventsOf("sleep")) = 1
    /\ Len(TablesGet(collection)) = 3
    /\ Len(DirectoriesGet(collection)) = 2 /\ Len(collection) = 1
    /\ call.files.csvs # {}

\* C27: the count Digikey.csvs_download returns is the number of sample
\* files fetched and written in the call.
C27_CountIsFilesFetched ==
    DownloadReturned => call.returned = Cardinality(EventsOf("write"))

\* root_directory_clear has been called.
ClearCalled == call.op = "root_directory_clear"

\* The removals among the events of the last call.
Removals == EventsOf("rmdir") \cup EventsOf("remove")

\* C30: root_directory_clear visits the entries longest path first, removes
\* neither root_directory nor an entry whose name ends in README.md, removes
\* every other file and directory below root_directory, and removes a
\* directory only after everything below it, for any tree, one with a
\* README.md inside a sub-directory included.
C30_ClearsAllButReadme ==
    ClearCalled =>
        /\ \A i, j \in 1..Len(call.events) :
               i < j => Len(call.events[i].file) >= Len(call.events[j].file)
        /\ \A i \in Removals :
               /\ ~EndsWith(call.events[i].file, ReadmeMd)
               /\ call.events[i].file \notin {RootDirectory, RootDirectory \o <<"/">>}
        /\ \A e \in call.files.root : ~EndsWith(e.name, ReadmeMd) => e \notin disk.root
        /\ \A i \in EventsOf("rmdir") :
               \A e \in Below(call.files.root, call.events[i].file) :
                   \E j \in Removals : j < i /\ call.events[j].file = e.name

-----------------------------------------------------------------------------
(* Digikey.process *)

\* The stages up to and including the reorganization.
BeforeDownload == {ProcessOrder[i] : i \in 1..5}

Follows(previous, op) ==
    \E i \in 1..(Len(ProcessOrder) - 1) :
        ProcessOrder[i] = previous /\ ProcessOrder[i + 1] = op

\* C23: process runs its stages in the order extract, build, verify,
\* reorganize, download, root clear, CSV processing; a stage that raises is
\* the last one to run; and up to the end of the reorganization no file is
\* fetched and nothing below the root directory is deleted, nor is anything
\* below the root directory deleted by the download.
C23_StagesInOrderAllOrNothing ==
    call.op # "none" =>
        /\ call.previous # "none" => Follows(call.previous, call.op)
        /\ ~call.after_failure
        /\ call.failed => pc = "aborted" /\ ~ENABLED NextProcess
        /\ ~call.failed => pc = "done" \/ Follows(call.op, pc)
        /\ call.op \in BeforeDownload => disk = call.files /\ call.events = <<>>
        /\ call.op = "csvs_download" => disk.root = call.files.root

\* A page has gone through every stage, and of the files below the root
\* directory README.md is left.
C23_Witness ==
    /\ pc = "done"
    /\ soup # <<>>
    /\ disk.root = {Entry(RootPath(ReadmeMd), FALSE)}

-----------------------------------------------------------------------------
(* soup_extract and collection_extract together *)

\* The second soup_extract, and the second collection_extract, of two runs
\* on one page has returned.
SecondMapping == call.op = "soup_extract" /\ call.count = 3 /\ pc # "aborted"

SecondTree == call.op = "collection_extract" /\ call.count = 4 /\ pc # "aborted"

C29_MatchHrefIsItsKey ==
    /\ SoupReturned =>
           \A key \in DOMAIN hrefs_table :
               \A i \in 1..Len(hrefs_table[key]) : hrefs_table[key][i].href = key
    /\ call.op = "collection_extract" /\ call.previous = "soup_extract" => ~call.failed
    /\ call.op = "collection_extract"
       /\ (\E key \in DOMAIN call.table :
               \E i \in 1..Len(call.table[key]) :
                   call.table[key][i].href \notin {<<>>, key})
       => call.failed /\ pc = "aborted" /\ collection = call.before

\* collection_extract has returned for a mapping of soup_extract with two
\* matches under one key.
C29_Witness ==
    /\ call.op = "collection_extract"
    /\ call.previous = "soup_extract"
    /\ pc = "collection_verify"
    /\ \E key \in DOMAIN call.table : Len(call.table[key]) >= 2

\* collection_extract has failed on a mapping with a Match of another href.
C29_MismatchWitness ==
    /\ call.op = "collection_extract"
    /\ pc = "aborted"
    /\ \E key \in DOMAIN call.table :
           \E i \in 1..Len(call.table[key]) : call.table[key][i].href \notin {<<>>, key}

-----------------------------------------------------------------------------
(* The order of the keys in collection_extract *)

Slashes(key) == Cardinality({i \in 1..Len(key) : key[i] = "/"})

IsCategoryKey(key) == Slashes(key) = 1

IsSubCategoryKey(key) == Slashes(key) = 2

\* P of "P/n" and of "P/S/m".
CategoryOf(key) == PySlice(key, 0, PyFind(key, <<"/">>))

\* The keys in the order the loop of collection_extract has come to them.
KeysVisited == call.visited

\* Each category key comes before each of its sub-category keys, with keys
\* of that category only in between.
CategoryComesFirst ==
    \A i, j \in 1..Len(KeysVisited) :
        /\ IsCategoryKey(KeysVisited[i])
        /\ IsSubCategoryKey(KeysVisited[j])
        /\ CategoryOf(KeysVisited[i]) = CategoryOf(KeysVisited[j])
        => /\ i < j
           /\ \A h \in i..j : CategoryOf(KeysVisited[h]) = CategoryOf(KeysVisited[i])

\* C24: for keys "P/n" and "P/S/m" of a page the sorted order in which
\* collection_extract goes through them comes to each category key before
\* each of its sub-category keys, with no key of another category in
\* between (which is what would make the current directory the table's own
\* category).
C24_CategoryBeforeSubCategories ==
    call.op = "collection_extract" /\ call.previous = "soup_extract" => CategoryComesFirst

====
